---- MODULE Spec2Model ----
(***************************************************************************)
(* Spotify playlist ETL: the extractor (scripts/extract.py), the           *)
(* normalizer (scripts/transform.py), the loader (scripts/load.py) and the *)
(* Airflow DAG that sequences them (airflow/dags/playlist_etl_dag.py).     *)
(*                                                                         *)
(* The specifications of the module:                                       *)
(*   SpecLoad      a sequence of load_to_postgreSQL calls against the sink *)
(*   SpecPipe      two DAG runs of playlist_etl_dag, interleaved           *)
(*   SpecExtract   one extract_task: its call of extract_playlist_tracks,  *)
(*                 step by step, and its write of RAW_PATH                 *)
(*   SpecExtractLive  the same, with the steps taken while there are any   *)
(*   SpecTransform transform_playlist_df applied to a raw dataframe and    *)
(*                 then to its own output                                  *)
(*   SpecDash      Track.objects.create and load_tracks_to_db calls on the *)
(*                 Track table of the dashboard                            *)
(*   SpecConc      two load_to_postgreSQL calls at the same time           *)
(*   SpecView      requests to the view analyze_playlist                   *)
(***************************************************************************)
EXTENDS Integers, Sequences, FiniteSets, TLC

VARIABLES
    \* ---- the relational sink (load.py, shared by SpecLoad and SpecPipe)
    table,            \* committed rows of the permanent table playlist_tracks
    tempTables,       \* committed staging tables: name -> sequence of rows
    \* ---- one load_to_postgreSQL call at a time (SpecLoad)
    loadPc,           \* "idle" | "to_sql" | "upsert"
    df,               \* the batch of the current call, after lines 52-54
    temp_table_name,  \* the staging name drawn at line 56
    loadResult,       \* how the last call ended
    preTable,         \* table when the last call started
    failedAt,         \* rows the upsert had applied when it failed
    reload,           \* the last call got the batch the call before it committed
    nLoads,           \* calls made so far
    \* ---- one extract_playlist_tracks call, step by step (SpecExtract)
    extPc,            \* "start" | "items" | "loop" | "artists" | "returned" |
                      \* "raised" | "written" (extract_task wrote RAW_PATH)
    results,          \* the page in hand: [items, next]
    itemIdx,          \* the item of the page the for loop of line 52 is at
    artist_ids,       \* artist ids of the track in hand (line 60)
    aidx,             \* the artist the for loop of line 63 is at
    genre_set,        \* line 62
    all_tracks,       \* line 48
    arrived,          \* every item the upstream has delivered, in arrival order
    pagesFetched,     \* pages delivered (playlist_items and next together)
    nextCalls,        \* calls of sp.next
    metaCalls,        \* calls of sp.playlist
    artistLog,        \* calls of sp.artist: <<position of the item in arrived,
                      \* artist id, whether the call answered, the
                      \* milliseconds slept since the call before it>>
    fetchLog,         \* the page numbers asked of the upstream, in order
    slept,            \* milliseconds slept since the last call of sp.artist
    \* ---- the DAG runs of playlist_etl_dag (SpecPipe)
    conf,             \* run -> dag_run.conf: <<>> before the trigger, <<playlist_id>> after
    ti,               \* run -> task -> state of the task instance
    tries,            \* run -> task -> attempts made
    raises,           \* run -> task -> attempts that raised
    rawFile,          \* RAW_PATH: <<>> when absent, <<rows>> when written
    cleanFile,        \* CLEAN_PATH: the same
    xcom,             \* run -> the playlist_id pushed by extract_task ("" before)
    extracted,        \* run -> the track ids of the records its extract_task
                      \* wrote and counted, in order
    transformed,      \* run -> <<the number of records its transform_task
                      \* wrote and counted>>, <<>> before
    persisted,        \* run -> the rows its load_task committed
    loadOutcome,      \* run -> how load_to_postgreSQL ended in its load_task
    \* ---- transform_playlist_df applied again and again (SpecTransform)
    raw_df,           \* the dataframe of the first call
    raw_columns,      \* whether that dataframe has the columns of a record
    transformError,   \* the exception the first call left by, "none" if none
    passes,           \* what each call returned, the first call first
    dateParsing,      \* how the installed pandas parses a column of dates
    \* ---- the Track table of the dashboard (SpecDash)
    tracks,           \* the rows of dashboard_track
    nextPk,           \* the next value of the id sequence
    lastOp,           \* the last ORM call: [op, playlist, rows]
    preTracks,        \* tracks when the last call started
    nOps,             \* calls made so far
    \* ---- two load_to_postgreSQL calls at the same time (SpecConc)
    cPc,              \* load -> "idle" | "to_sql" | "upsert" | "ended"
    cDf,              \* load -> its batch, after lines 52-54
    cName,            \* load -> the staging name it drew at line 56
    cResult,          \* load -> how it ended
    stagedBy,         \* staging table -> the load whose to_sql created it
    \* ---- analyze_playlist, request after request (SpecView)
    request,          \* the request in hand: [method, url, authenticated]
    viewPc,           \* "idle" | "post" | "parsed" | "try" | "responded"
    stage,            \* the statement of the try block the view is at
    effects,          \* what the view has done for the request, in order
    status,           \* the status of the response, 0 before it
    raisedAt,         \* the statement that raised, "none" if none
    playlistSaved,    \* a Playlist row exists for the user and playlist
    dagRuns,          \* DAG runs the Airflow API has accepted
    nRequests         \* requests received so far

loadVars == <<loadPc, df, temp_table_name, loadResult, preTable, failedAt,
              reload, nLoads>>
sinkVars == <<table, tempTables>>
pipeVars == <<conf, ti, tries, raises, rawFile, cleanFile, xcom, extracted,
              transformed, persisted, loadOutcome>>
normVars == <<raw_df, raw_columns, transformError, passes, dateParsing>>
dashVars == <<tracks, nextPk, lastOp, preTracks, nOps>>
concVars == <<cPc, cDf, cName, cResult, stagedBy>>
viewVars == <<request, viewPc, stage, effects, status, raisedAt, playlistSaved,
              dagRuns, nRequests>>
extVars == <<extPc, results, itemIdx, artist_ids, aidx, genre_set, all_tracks,
             arrived, pagesFetched, nextCalls, metaCalls, artistLog, fetchLog,
             slept>>

-----------------------------------------------------------------------------
(* Bounds of the model *)

\* the longest batch handed to one load
MaxBatch == 2
\* the number of load_to_postgreSQL calls in one behaviour of SpecLoad
MaxLoads == 2
\* the number of pages the upstream delivers for one playlist
MaxPages == 2
\* the number of items (tracks and null entries) of one playlist
MaxItems == 3
\* the longest dataframe handed to the normalizer
MaxRows == 2
\* the number of times the normalizer is applied to its own output
MaxPasses == 3
\* the number of calls on the Track table in one behaviour of SpecDash
MaxOps == 2
\* the longest dataframe handed to load_tracks_to_db
MaxDf == 2
\* the number of requests analyze_playlist receives in one behaviour
MaxRequests == 3

-----------------------------------------------------------------------------
(* Values *)

PlaylistIds == {"p1", "p2"}

\* Columns of playlist_tracks, as the INSERT lists them (load.py 70-74).
KeyColumns == {"playlist_id", "track_id"}
ListColumns == {"track_genres", "artist_ids", "artist_names"}
IntColumns == {"track_duration_ms", "track_popularity"}
MutableColumns ==
    {"track_name", "track_duration_ms", "track_popularity", "track_genres",
     "album_id", "album_name", "album_release_date", "album_label",
     "artist_ids", "artist_names"}
Columns == KeyColumns \cup MutableColumns

\* A dataframe cell that may hold a list. tag says what Python object it is:
\*   "list"   a native list, val its elements
\*   "str"    a string; lit says what ast.literal_eval makes of it:
\*            "list" (val the elements), "scalar" (a literal that is neither
\*            a list nor a string), "bad" (no literal), "qlist" (the string
\*            that is the repr of the list val), "qqlist" (the string that
\*            is the repr of a "qlist" string)
\*   "nan"    None / NaN
\*   "scalar" a non-list Python literal
\*   "json"   the text json.dumps produced; lit/val say what it encodes
\*   "jsonb"  a jsonb value of the sink
Cell(tag, lit, val) == [tag |-> tag, lit |-> lit, val |-> val]
NativeList(s) == Cell("list", "none", s)
ListString(s) == Cell("str", "list", s)
ScalarString == Cell("str", "scalar", <<>>)
BadString == Cell("str", "bad", <<>>)
QuotedListString(s) == Cell("str", "qlist", s)
TwiceQuotedListString(s) == Cell("str", "qqlist", s)
NaN == Cell("nan", "none", <<>>)

\* a safe_parse without the isinstance test: literal_eval of a list raises
safe_parse_no_passthrough(x) ==
    IF x.tag = "nan" THEN NativeList(<<>>)
    ELSE IF x.tag = "str" /\ x.lit = "list" THEN NativeList(x.val)
    ELSE IF x.tag = "str" /\ x.lit = "scalar" THEN Cell("scalar", "none", <<>>)
    ELSE IF x.tag = "str" /\ x.lit = "qlist" THEN ListString(x.val)
    ELSE IF x.tag = "str" /\ x.lit = "qqlist" THEN QuotedListString(x.val)
    ELSE NativeList(<<>>)

\* load.py 35-41 (and transform.py 22-28, the same text): a list is returned
\* as it is, None/NaN gives [], and anything else goes to ast.literal_eval,
\* whose value is returned whatever it is and whose exception gives []
safe_parse(x) ==
    IF x.tag = "list" THEN x
    ELSE IF x.tag = "nan" THEN NativeList(<<>>)
    ELSE IF x.tag = "str" /\ x.lit = "list" THEN NativeList(x.val)
    ELSE IF x.tag = "str" /\ x.lit = "scalar" THEN Cell("scalar", "none", <<>>)
    ELSE IF x.tag = "str" /\ x.lit = "qlist" THEN ListString(x.val)
    ELSE IF x.tag = "str" /\ x.lit = "qqlist" THEN QuotedListString(x.val)
    ELSE NativeList(<<>>)

\* A cell of album_release_date:
\*   "none" None / NaN
\*   "str"  a text; val its ISO 8601 components, <<year>>, <<year, month>> or
\*          <<year, month, day>>, and <<>> for a text that is no date
\*   "ts"   a Timestamp, val <<year, month, day>>
\*   "nat"  NaT
NoDate == [tag |-> "none", val |-> <<>>]
DateStr(v) == [tag |-> "str", val |-> v]
Timestamp(v) == [tag |-> "ts", val |-> v]
NaT == [tag |-> "nat", val |-> <<>>]

\* json.dumps of what safe_parse returned (load.py 52-54)
json_dumps(x) ==
    IF x.tag = "list" THEN Cell("json", "list", x.val)
    ELSE Cell("json", "scalar", <<>>)

\* CAST(col AS jsonb) of the staged text (load.py 77-78)
CastJsonb(x) == Cell("jsonb", x.lit, x.val)


-----------------------------------------------------------------------------
(* The loader: scripts/load.py *)

\* The values a batch row carries in its mutable columns. A row comes in two
\* versions, 50 and 90 (the popularity of the version), which differ in every
\* mutable column.
Versions == {50, 90}
ColumnValue(c, v) ==
    IF c \in IntColumns THEN v
    ELSE IF c \in ListColumns
         THEN ListString(IF v = 50 THEN <<"pop">> ELSE <<"pop", "rock">>)
    ELSE IF c = "album_release_date"
         THEN (IF v = 50 THEN <<2023, 1, 1>> ELSE <<2024, 6, 1>>)
    ELSE (IF v = 50 THEN "old" ELSE "new")

\* A row of the dataframe load_task hands to the loader: the cleaned CSV row
\* stamped with the playlist_id. A date is written <<year, month, day>>.
BatchRow(p, t, v) ==
    [c \in Columns |->
        IF c = "playlist_id" THEN p
        ELSE IF c = "track_id" THEN t
        ELSE ColumnValue(c, v)]

BatchRows ==
    {BatchRow("p1", "t1", 50), BatchRow("p1", "t1", 90),
     BatchRow("p1", "t2", 50), BatchRow("p2", "t1", 50)}

RECURSIVE SeqsUpTo(_, _)
SeqsUpTo(S, n) ==
    IF n = 0 THEN {<<>>}
    ELSE LET shorter == SeqsUpTo(S, n - 1)
         IN shorter \cup {Append(q, x) : q \in {r \in shorter : Len(r) = n - 1}, x \in S}

Batches == SeqsUpTo(BatchRows, MaxBatch)

\* f'temp_{table_name}_{os.urandom(8).hex()}' of line 56. The calls of
\* SpecLoad follow one another, so a name met again can only be the name of a
\* staging table an earlier call left behind, which to_sql then replaces.
TempNames == {"temp_playlist_tracks_5f3a"}

\* lines 52-54: the three list columns through safe_parse, then json.dumps
SerializeRow(row) ==
    [c \in DOMAIN row |->
        IF c \in ListColumns THEN json_dumps(safe_parse(row[c])) ELSE row[c]]
SerializeLists(d) == [i \in 1..Len(d) |-> SerializeRow(d[i])]

\* CAST(album_release_date AS DATE), line 77
CastDate(x) == [date |-> x]

\* The SELECT list of the upsert (lines 75-79): the twelve columns of a staged
\* row, with the casts.
SelectRow(staged) ==
    [c \in Columns |->
        IF c \in ListColumns THEN CastJsonb(staged[c])
        ELSE IF c = "album_release_date" THEN CastDate(staged[c])
        ELSE staged[c]]

KeyOf(row) == <<row["playlist_id"], row["track_id"]>>

\* a SET list that leaves out album_label and track_genres
SetColumnsPartial ==
    {"track_name", "track_duration_ms", "track_popularity",
     "album_id", "album_name", "album_release_date",
     "artist_ids", "artist_names"}

\* The SET list of ON CONFLICT ... DO UPDATE (lines 80-90)
SetColumns ==
    {"track_name", "track_duration_ms", "track_popularity", "track_genres",
     "album_id", "album_name", "album_release_date", "album_label",
     "artist_ids", "artist_names"}

DoUpdateSet(existing, excluded) ==
    [c \in Columns |-> IF c \in SetColumns THEN excluded[c] ELSE existing[c]]

\* a loader that inserts on conflict instead of updating
InsertAlways(t, row) == t \cup {row}

\* One proposed row of INSERT ... ON CONFLICT (playlist_id, track_id) DO
\* UPDATE (lines 70-90): the unique index on the key decides between insert
\* and update.
InsertOnConflict(t, row) ==
    LET hit == {e \in t : KeyOf(e) = KeyOf(row)}
    IN IF hit = {} THEN t \cup {row}
       ELSE (t \ hit) \cup {DoUpdateSet(e, row) : e \in hit}

\* an upsert that first clears the rows of the playlists of the batch
RECURSIVE UpsertRowsSync(_, _, _)
UpsertRowsSync(t, staged, k) ==
    IF k = 0
    THEN {e \in t : \A i \in 1..Len(staged) :
                        e["playlist_id"] # staged[i]["playlist_id"]}
    ELSE InsertOnConflict(UpsertRowsSync(t, staged, k - 1), SelectRow(staged[k]))

\* The first k rows of the staging table through the upsert.
RECURSIVE UpsertRows(_, _, _)
UpsertRows(t, staged, k) ==
    IF k = 0 THEN t
    ELSE InsertOnConflict(UpsertRows(t, staged, k - 1), SelectRow(staged[k]))

\* The first row that proposes a key an earlier row of the same statement
\* proposed; 0 when there is none. PostgreSQL ends the statement there ("ON
\* CONFLICT DO UPDATE command cannot affect row a second time").
FirstDuplicate(staged) ==
    LET dup == {j \in 1..Len(staged) :
                    \E i \in 1..(j - 1) : KeyOf(staged[i]) = KeyOf(staged[j])}
    IN IF dup = {} THEN 0 ELSE CHOOSE j \in dup : \A i \in dup : j <= i

\* The rows the statement can have applied when it raises: any number when the
\* sink fails (a cast, the connection, the DROP, the commit), and no more than
\* the rows before the first duplicate.
FailurePoints(staged) ==
    IF FirstDuplicate(staged) = 0 THEN 0..Len(staged)
    ELSE 0..(FirstDuplicate(staged) - 1)

\* a transaction that keeps what it wrote when it fails
KeepWorking(committed, working) == working

\* engine.begin() of line 94 leaving by an exception: the transaction is
\* rolled back.
Rollback(committed, working) == committed

CreateTable(tt, name, rows) ==
    [n \in (DOMAIN tt) \cup {name} |-> IF n = name THEN rows ELSE tt[n]]
DropTable(tt, name) == [n \in (DOMAIN tt) \ {name} |-> tt[n]]

\* a loader without the test of lines 48-50
LoadCallNoEmptyTest(d) ==
    /\ loadPc = "idle"
    /\ nLoads < MaxLoads
    /\ nLoads' = nLoads + 1
    /\ reload' = (loadResult = "committed" /\ SerializeLists(d) = df)
    /\ preTable' = table
    /\ failedAt' = 0
    /\ loadPc' = "to_sql"
    /\ loadResult' = "running"
    /\ df' = SerializeLists(d)
    /\ \E name \in TempNames : temp_table_name' = name
    /\ UNCHANGED sinkVars
    /\ UNCHANGED <<extVars, pipeVars, normVars, dashVars, concVars, viewVars>>

\* load_to_postgreSQL is called with the batch d (lines 46-56). An empty
\* dataframe returns at once.
LoadCall(d) ==
    /\ loadPc = "idle"
    /\ nLoads < MaxLoads
    /\ nLoads' = nLoads + 1
    /\ reload' = (loadResult = "committed" /\ SerializeLists(d) = df)
    /\ preTable' = table
    /\ failedAt' = 0
    /\ IF d = <<>>
       THEN /\ loadPc' = "idle"
            /\ loadResult' = "skipped"
            /\ df' = d
            /\ UNCHANGED temp_table_name
       ELSE /\ loadPc' = "to_sql"
            /\ loadResult' = "running"
            /\ df' = SerializeLists(d)
            /\ \E name \in TempNames : temp_table_name' = name
    /\ UNCHANGED sinkVars
    /\ UNCHANGED <<extVars, pipeVars, normVars, dashVars, concVars, viewVars>>

\* df.to_sql(..., if_exists='replace') of lines 60-64 succeeds: the staging
\* table is created (replacing a table of that name) and committed.
ToSql ==
    /\ loadPc = "to_sql"
    /\ tempTables' = CreateTable(tempTables, temp_table_name, df)
    /\ loadPc' = "upsert"
    /\ UNCHANGED <<table, df, temp_table_name, loadResult, preTable, failedAt,
                   reload, nLoads>>
    /\ UNCHANGED <<extVars, pipeVars, normVars, dashVars, concVars, viewVars>>

\* to_sql raises: its own transaction is rolled back, the except clause of
\* line 96 prints and the call returns.
ToSqlFail ==
    /\ loadPc = "to_sql"
    /\ loadPc' = "idle"
    /\ loadResult' = "staging_failed"
    /\ UNCHANGED <<table, tempTables, df, temp_table_name, preTable, failedAt,
                   reload, nLoads>>
    /\ UNCHANGED <<extVars, pipeVars, normVars, dashVars, concVars, viewVars>>

\* lines 94-95: the upsert and the DROP TABLE run and the transaction commits.
UpsertCommit ==
    /\ loadPc = "upsert"
    /\ temp_table_name \in DOMAIN tempTables
    /\ LET staged == tempTables[temp_table_name]
       IN /\ FirstDuplicate(staged) = 0
          /\ table' = UpsertRows(table, staged, Len(staged))
    /\ tempTables' = DropTable(tempTables, temp_table_name)
    /\ loadPc' = "idle"
    /\ loadResult' = "committed"
    /\ UNCHANGED <<df, temp_table_name, preTable, failedAt, reload, nLoads>>
    /\ UNCHANGED <<extVars, pipeVars, normVars, dashVars, concVars, viewVars>>

\* lines 94-97: the statement raises after k rows; the transaction is rolled
\* back, the DROP TABLE of line 92 has not run, the except clause prints and
\* the call returns.
UpsertFail ==
    /\ loadPc = "upsert"
    /\ temp_table_name \in DOMAIN tempTables
    /\ LET staged == tempTables[temp_table_name]
       IN \E k \in FailurePoints(staged) :
            /\ table' = Rollback(table, UpsertRows(table, staged, k))
            /\ failedAt' = k
    /\ loadPc' = "idle"
    /\ loadResult' = "upsert_failed"
    /\ UNCHANGED <<tempTables, df, temp_table_name, preTable, reload, nLoads>>
    /\ UNCHANGED <<extVars, pipeVars, normVars, dashVars, concVars, viewVars>>

InitSink ==
    /\ table = {}
    /\ tempTables = <<>>

InitLoad ==
    /\ loadPc = "idle"
    /\ df = <<>>
    /\ temp_table_name = "none"
    /\ loadResult = "none"
    /\ preTable = {}
    /\ failedAt = 0
    /\ reload = FALSE
    /\ nLoads = 0

-----------------------------------------------------------------------------
(* The extractor: scripts/extract.py *)

\* What the upstream API holds. An item of a page is a track id, or "null"
\* for an item whose track payload is None (a removed or unavailable track).
\* t1 has one artist, t2 two artists that share a genre, t3 and t4 an artist
\* without genres.
NullTrack == "null"
TrackArtists(t) ==
    IF t = "t1" THEN <<"a1">>
    ELSE IF t = "t2" THEN <<"a1", "a2">>
    ELSE <<"a3">>
ArtistGenres(a) ==
    IF a = "a1" THEN {"pop"}
    ELSE IF a = "a2" THEN {"pop", "rock"}
    ELSE {}

\* item['track'] of line 53: <<>> for None, <<object>> for a track object. A
\* value that can be None is written <<>> for None and <<v>> for v.
Payload(item) ==
    IF item = NullTrack THEN <<>>
    ELSE <<[id |-> item, name |-> "name", duration_ms |-> <<200000>>,
          popularity |-> <<80>>,
          album |-> [id |-> "album1", name |-> <<"Album">>,
                     release_date |-> DateStr(<<2023, 1, 1>>), label |-> "Label"],
          artists |-> [i \in 1..Len(TrackArtists(item)) |->
                          [id |-> TrackArtists(item)[i], name |-> "Artist"]]]>>

\* a loop that takes every item, the null ones too
NoTrackNever(track) == FALSE

\* `if not track: continue` of lines 54-55 (a track payload is None or a
\* track object, which is truthy)
NoTrack(track) == track = <<>>

\* the dictionary appended at lines 72-87; genres is list(genre_set)
TrackRecord(track, genres) ==
    [track_id |-> track.id,
     track_name |-> track.name,
     track_duration_ms |-> track.duration_ms,
     track_popularity |-> track.popularity,
     track_genres |-> NativeList(genres),
     album_id |-> track.album.id,
     album_name |-> track.album.name,
     album_release_date |-> track.album.release_date,
     album_label |-> track.album.label,
     artist_ids |-> NativeList([i \in 1..Len(track.artists) |-> track.artists[i].id]),
     artist_names |-> NativeList([i \in 1..Len(track.artists) |-> track.artists[i].name])]

\* list(genre_set): the elements in whatever order the set iterates
ListsOf(S) ==
    {q \in [1..Cardinality(S) -> S] : \A x \in S : \E i \in DOMAIN q : q[i] = x}

Items == {NullTrack, "t1", "t2"}

\* The pages the upstream can answer with: any items the playlist still has
\* room for; a next cursor only while another page can follow.
Pages ==
    {[items |-> its, next |-> n] :
        its \in SeqsUpTo(Items, MaxItems - Len(arrived)),
        n \in IF pagesFetched + 1 < MaxPages THEN BOOLEAN ELSE {FALSE}}

NoPage == [items |-> <<>>, next |-> FALSE]

\* The pages of a playlist form a chain, numbered from 1. sp.playlist_items
\* (line 49) asks for the first one.
FirstPage == 1

\* a loop that asks for the first page again
NextOfRestart(n) == FirstPage

\* sp.next(results) of line 89 asks for the page the next cursor of the page
\* in hand points to: the page after it
NextOf(n) == n + 1

\* line 43: sp.playlist(playlist_id) answers
GetPlaylist ==
    /\ extPc = "start"
    /\ metaCalls' = metaCalls + 1
    /\ extPc' = "items"
    /\ UNCHANGED <<results, itemIdx, artist_ids, aidx, genre_set, all_tracks,
                   arrived, pagesFetched, nextCalls, artistLog, fetchLog, slept>>
    /\ UNCHANGED <<sinkVars, loadVars, pipeVars, normVars, dashVars, concVars,
                   viewVars>>

\* line 43: sp.playlist raises (unknown playlist); nothing catches it
GetPlaylistFail ==
    /\ extPc = "start"
    /\ metaCalls' = metaCalls + 1
    /\ extPc' = "raised"
    /\ UNCHANGED <<results, itemIdx, artist_ids, aidx, genre_set, all_tracks,
                   arrived, pagesFetched, nextCalls, artistLog, fetchLog, slept>>
    /\ UNCHANGED <<sinkVars, loadVars, pipeVars, normVars, dashVars, concVars,
                   viewVars>>

\* lines 48-49: sp.playlist_items answers with the first page
GetItems ==
    /\ extPc = "items"
    /\ \E page \in Pages :
          /\ results' = page
          /\ arrived' = arrived \o page.items
    /\ pagesFetched' = pagesFetched + 1
    /\ fetchLog' = Append(fetchLog, FirstPage)
    /\ itemIdx' = 1
    /\ extPc' = "loop"
    /\ UNCHANGED <<artist_ids, aidx, genre_set, all_tracks, nextCalls,
                   metaCalls, artistLog, slept>>
    /\ UNCHANGED <<sinkVars, loadVars, pipeVars, normVars, dashVars, concVars,
                   viewVars>>

\* a page fetch whose error ends the loop with the records gathered so far
PageFailReturns ==
    /\ \/ extPc = "items"
       \/ extPc = "loop" /\ itemIdx > Len(results.items) /\ results.next
    /\ nextCalls' = IF extPc = "loop" THEN nextCalls + 1 ELSE nextCalls
    /\ fetchLog' = Append(fetchLog, IF extPc = "loop"
                                    THEN NextOf(fetchLog[Len(fetchLog)])
                                    ELSE FirstPage)
    /\ extPc' = "returned"
    /\ UNCHANGED <<results, itemIdx, artist_ids, aidx, genre_set, all_tracks,
                   arrived, pagesFetched, metaCalls, artistLog, slept>>
    /\ UNCHANGED <<sinkVars, loadVars, pipeVars, normVars, dashVars, concVars,
                   viewVars>>

\* lines 49 and 89: a page fetch raises; nothing catches it
PageFail ==
    /\ \/ extPc = "items"
       \/ extPc = "loop" /\ itemIdx > Len(results.items) /\ results.next
    /\ nextCalls' = IF extPc = "loop" THEN nextCalls + 1 ELSE nextCalls
    /\ fetchLog' = Append(fetchLog, IF extPc = "loop"
                                    THEN NextOf(fetchLog[Len(fetchLog)])
                                    ELSE FirstPage)
    /\ extPc' = "raised"
    /\ UNCHANGED <<results, itemIdx, artist_ids, aidx, genre_set, all_tracks,
                   arrived, pagesFetched, metaCalls, artistLog, slept>>
    /\ UNCHANGED <<sinkVars, loadVars, pipeVars, normVars, dashVars, concVars,
                   viewVars>>

\* lines 52-55: the item has no track and is passed over
SkipItem ==
    /\ extPc = "loop"
    /\ itemIdx <= Len(results.items)
    /\ NoTrack(Payload(results.items[itemIdx]))
    /\ itemIdx' = itemIdx + 1
    /\ UNCHANGED <<extPc, results, artist_ids, aidx, genre_set, all_tracks,
                   arrived, pagesFetched, nextCalls, metaCalls, artistLog, fetchLog, slept>>
    /\ UNCHANGED <<sinkVars, loadVars, pipeVars, normVars, dashVars, concVars,
                   viewVars>>

\* a loop that creates genre_set once, before the first item
StartTrackKeepsGenres ==
    /\ extPc = "loop"
    /\ itemIdx <= Len(results.items)
    /\ ~NoTrack(Payload(results.items[itemIdx]))
    /\ LET track == Payload(results.items[itemIdx])
       IN /\ artist_ids' =
                 [i \in 1..Len(track[1].artists) |-> track[1].artists[i].id]
          /\ aidx' = 1
          /\ extPc' = "artists"
    /\ UNCHANGED <<results, itemIdx, genre_set, all_tracks, arrived, pagesFetched,
                   nextCalls, metaCalls, artistLog, fetchLog, slept>>
    /\ UNCHANGED <<sinkVars, loadVars, pipeVars, normVars, dashVars, concVars,
                   viewVars>>

\* lines 56-62: the item is not passed over; its album and artists are read
\* (subscripting None raises TypeError, which nothing catches)
StartTrack ==
    /\ extPc = "loop"
    /\ itemIdx <= Len(results.items)
    /\ ~NoTrack(Payload(results.items[itemIdx]))
    /\ LET track == Payload(results.items[itemIdx])
       IN IF track = <<>>
          THEN /\ extPc' = "raised"
               /\ UNCHANGED <<artist_ids, genre_set, aidx>>
          ELSE /\ artist_ids' =
                      [i \in 1..Len(track[1].artists) |-> track[1].artists[i].id]
               /\ genre_set' = {}
               /\ aidx' = 1
               /\ extPc' = "artists"
    /\ UNCHANGED <<results, itemIdx, all_tracks, arrived, pagesFetched,
                   nextCalls, metaCalls, artistLog, fetchLog, slept>>
    /\ UNCHANGED <<sinkVars, loadVars, pipeVars, normVars, dashVars, concVars,
                   viewVars>>

\* the position in arrived of the item in hand
ArrivedPos == Len(arrived) - Len(results.items) + itemIdx

\* time.sleep(0.1) of line 68, in milliseconds
SleepMs == 100

\* What the function has slept, at the least, when it makes its next sp.artist
\* call: time.sleep(0.1) is the last statement of the try block (line 68), so
\* it runs after a call that answered and is passed over when the call raised
SleptAfter(answered) == IF answered THEN SleepMs ELSE 0

\* lines 64-68: sp.artist answers, its genres join the set and the function
\* sleeps
ArtistOk ==
    /\ extPc = "artists"
    /\ aidx <= Len(artist_ids)
    /\ genre_set' = genre_set \cup ArtistGenres(artist_ids[aidx])
    /\ artistLog' = Append(artistLog, <<ArrivedPos, artist_ids[aidx], TRUE, slept>>)
    /\ slept' = SleptAfter(TRUE)
    /\ aidx' = aidx + 1
    /\ UNCHANGED <<extPc, results, itemIdx, artist_ids, all_tracks, arrived,
                   pagesFetched, nextCalls, metaCalls, fetchLog>>
    /\ UNCHANGED <<sinkVars, loadVars, pipeVars, normVars, dashVars, concVars,
                   viewVars>>

\* a lookup whose error leaves the function
ArtistFailRaises ==
    /\ extPc = "artists"
    /\ aidx <= Len(artist_ids)
    /\ artistLog' = Append(artistLog, <<ArrivedPos, artist_ids[aidx], FALSE, slept>>)
    /\ slept' = SleptAfter(FALSE)
    /\ extPc' = "raised"
    /\ UNCHANGED <<aidx, results, itemIdx, artist_ids, genre_set, all_tracks,
                   arrived, pagesFetched, nextCalls, metaCalls, fetchLog>>
    /\ UNCHANGED <<sinkVars, loadVars, pipeVars, normVars, dashVars, concVars,
                   viewVars>>

\* lines 64-70: sp.artist raises; the except clause prints and the loop goes on
ArtistFail ==
    /\ extPc = "artists"
    /\ aidx <= Len(artist_ids)
    /\ artistLog' = Append(artistLog, <<ArrivedPos, artist_ids[aidx], FALSE, slept>>)
    /\ slept' = SleptAfter(FALSE)
    /\ aidx' = aidx + 1
    /\ UNCHANGED <<extPc, results, itemIdx, artist_ids, genre_set, all_tracks,
                   arrived, pagesFetched, nextCalls, metaCalls, fetchLog>>
    /\ UNCHANGED <<sinkVars, loadVars, pipeVars, normVars, dashVars, concVars,
                   viewVars>>

\* lines 72-87: the record of the track is appended
AppendTrack ==
    /\ extPc = "artists"
    /\ aidx > Len(artist_ids)
    /\ \E genres \in ListsOf(genre_set) :
          all_tracks' =
              Append(all_tracks, TrackRecord(Payload(results.items[itemIdx])[1], genres))
    /\ itemIdx' = itemIdx + 1
    /\ extPc' = "loop"
    /\ UNCHANGED <<results, artist_ids, aidx, genre_set, arrived, pagesFetched,
                   nextCalls, metaCalls, artistLog, fetchLog, slept>>
    /\ UNCHANGED <<sinkVars, loadVars, pipeVars, normVars, dashVars, concVars,
                   viewVars>>

\* a loop that starts the list of records again with every page
NextPageRestart ==
    /\ extPc = "loop"
    /\ itemIdx > Len(results.items)
    /\ results.next
    /\ \E page \in Pages :
          /\ results' = page
          /\ arrived' = arrived \o page.items
    /\ pagesFetched' = pagesFetched + 1
    /\ nextCalls' = nextCalls + 1
    /\ fetchLog' = Append(fetchLog, NextOf(fetchLog[Len(fetchLog)]))
    /\ itemIdx' = 1
    /\ all_tracks' = <<>>
    /\ UNCHANGED <<extPc, artist_ids, aidx, genre_set, metaCalls, artistLog,
                   slept>>
    /\ UNCHANGED <<sinkVars, loadVars, pipeVars, normVars, dashVars, concVars,
                   viewVars>>

\* lines 88-89: the page has a next cursor and sp.next answers
NextPage ==
    /\ extPc = "loop"
    /\ itemIdx > Len(results.items)
    /\ results.next
    /\ \E page \in Pages :
          /\ results' = page
          /\ arrived' = arrived \o page.items
    /\ pagesFetched' = pagesFetched + 1
    /\ nextCalls' = nextCalls + 1
    /\ fetchLog' = Append(fetchLog, NextOf(fetchLog[Len(fetchLog)]))
    /\ itemIdx' = 1
    /\ UNCHANGED <<extPc, artist_ids, aidx, genre_set, all_tracks, metaCalls,
                   artistLog, slept>>
    /\ UNCHANGED <<sinkVars, loadVars, pipeVars, normVars, dashVars, concVars,
                   viewVars>>

\* lines 90-93: the page has no next cursor; the records are returned
ReturnTracks ==
    /\ extPc = "loop"
    /\ itemIdx > Len(results.items)
    /\ ~results.next
    /\ extPc' = "returned"
    /\ UNCHANGED <<results, itemIdx, artist_ids, aidx, genre_set, all_tracks,
                   arrived, pagesFetched, nextCalls, metaCalls, artistLog, fetchLog, slept>>
    /\ UNCHANGED <<sinkVars, loadVars, pipeVars, normVars, dashVars, concVars,
                   viewVars>>

\* the DAG run and the playlist of the extract_task that makes the call
TaskRun == "run1"
TaskPlaylist == "p1"

\* extract_task after extract_playlist_tracks returned (playlist_etl_dag.py
\* 60-64): the records are written to RAW_PATH and the playlist id is pushed
\* to XCom. An exception of extract_playlist_tracks leaves extract_task at
\* line 60, which has no try: none of this runs.
ExtractTaskWrite ==
    /\ extPc = "returned"
    /\ extPc' = "written"
    /\ rawFile' = <<all_tracks>>
    /\ xcom' = [xcom EXCEPT ![TaskRun] = TaskPlaylist]
    /\ UNCHANGED <<results, itemIdx, artist_ids, aidx, genre_set, all_tracks,
                   arrived, pagesFetched, nextCalls, metaCalls, artistLog,
                   fetchLog, slept>>
    /\ UNCHANGED <<conf, ti, tries, raises, cleanFile, extracted, transformed,
                   persisted, loadOutcome>>
    /\ UNCHANGED <<sinkVars, loadVars, normVars, dashVars, concVars, viewVars>>

InitExtract ==
    /\ extPc = "start"
    /\ results = NoPage
    /\ itemIdx = 1
    /\ artist_ids = <<>>
    /\ aidx = 1
    /\ genre_set = {}
    /\ all_tracks = <<>>
    /\ arrived = <<>>
    /\ pagesFetched = 0
    /\ nextCalls = 0
    /\ metaCalls = 0
    /\ artistLog = <<>>
    /\ fetchLog = <<>>
    /\ slept = 0

-----------------------------------------------------------------------------
(* The normalizer: scripts/transform.py *)

\* How pd.to_datetime reads a column of strings. pandas before 2.0 parses
\* every element on its own; pandas 2.0 and later takes the format of the
\* first non-null element and parses every element with it.
DateParsings == {"each", "first"}

\* the Timestamp of an ISO text: a missing month or day is 1
PadDate(v) ==
    <<v[1], IF Len(v) >= 2 THEN v[2] ELSE 1, IF Len(v) = 3 THEN v[3] ELSE 1>>

\* one element parsed on its own (errors='coerce': NaT for what is no date)
ParseEach(x) ==
    IF x.tag = "ts" THEN x
    ELSE IF x.tag = "str" /\ Len(x.val) \in 1..3 THEN Timestamp(PadDate(x.val))
    ELSE NaT

\* the format guessed from the first non-null element: the number of ISO
\* components of its text, 0 when no format can be guessed
GuessFormat(col) ==
    LET present == {i \in 1..Len(col) : col[i].tag \notin {"none", "nat"}}
    IN IF present = {} THEN 0
       ELSE LET f == CHOOSE i \in present : \A j \in present : i <= j
            IN IF col[f].tag = "str" THEN Len(col[f].val) ELSE 0

\* one element parsed with the guessed format (errors='coerce': NaT for a
\* text that does not match it)
ParseWith(x, fmt) ==
    IF x.tag = "ts" THEN x
    ELSE IF x.tag = "str" /\ Len(x.val) = fmt THEN Timestamp(PadDate(x.val))
    ELSE NaT

\* pd.to_datetime(df['album_release_date'], errors='coerce') of line 11. A
\* column that is datetime64 already comes back as it is.
to_datetime(col, parsing) ==
    IF \A i \in 1..Len(col) : col[i].tag \in {"ts", "nat"} THEN col
    ELSE IF parsing = "each" \/ GuessFormat(col) = 0
         THEN [i \in 1..Len(col) |-> ParseEach(col[i])]
    ELSE [i \in 1..Len(col) |-> ParseWith(col[i], GuessFormat(col))]

\* .dt.year of line 12: <<year>>, or <<>> (NaN) for NaT
dt_year(d) == IF d.tag = "ts" THEN <<d.val[1]>> ELSE <<>>

\* df['track_duration_ms'] / 1000 of line 15, kept as numerator and
\* denominator; NaN for a missing duration
DurationSec(ms) ==
    IF ms = <<>> THEN <<>> ELSE <<[num |-> ms[1], den |-> 1000]>>

\* .fillna(d) of lines 18-19
fillna(x, d) == IF x = <<>> THEN <<d>> ELSE x

\* one row through lines 12-32, with its parsed date
TransformRow(r, date) ==
    [track_id |-> r.track_id,
     track_name |-> r.track_name,
     track_duration_ms |-> r.track_duration_ms,
     track_popularity |-> fillna(r.track_popularity, 0),
     track_genres |-> safe_parse(r.track_genres),
     album_id |-> r.album_id,
     album_name |-> fillna(r.album_name, "Unknown"),
     album_release_date |-> date,
     album_label |-> r.album_label,
     artist_ids |-> safe_parse(r.artist_ids),
     artist_names |-> safe_parse(r.artist_names),
     release_year |-> dt_year(date),
     track_duration_sec |-> DurationSec(r.track_duration_ms)]

\* transform_playlist_df (lines 8-34)
transform_playlist_df(rows, parsing) ==
    LET dates == to_datetime([i \in 1..Len(rows) |-> rows[i].album_release_date],
                             parsing)
    IN [i \in 1..Len(rows) |-> TransformRow(rows[i], dates[i])]

\* The rows a raw dataframe is made of: the row of a well-formed track, that
\* row with one field replaced by each of the other shapes the field can
\* have, the row with every nullable field null and a row with three shapes
\* in its list columns.
WellFormed ==
    [track_id |-> "t1", track_name |-> "name",
     track_duration_ms |-> <<200000>>, track_popularity |-> <<80>>,
     track_genres |-> NativeList(<<"pop", "rock">>),
     album_id |-> "album1", album_name |-> <<"Album">>,
     album_release_date |-> DateStr(<<2023, 1, 15>>), album_label |-> "Label",
     artist_ids |-> NativeList(<<"a1">>), artist_names |-> NativeList(<<"Artist">>)]

\* a track_id that is None
NoneId == "None"

FieldShapes ==
    {<<"track_id", NoneId>>,
     <<"track_popularity", <<>>>>, <<"track_popularity", <<-5>>>>,
     <<"track_duration_ms", <<>>>>, <<"track_duration_ms", <<-1>>>>,
     <<"album_name", <<>>>>,
     <<"album_release_date", NoDate>>, <<"album_release_date", DateStr(<<>>)>>,
     <<"album_release_date", DateStr(<<1999>>)>>,
     <<"track_genres", ListString(<<"pop", "rock">>)>>,
     <<"track_genres", NativeList(<<>>)>>, <<"track_genres", NaN>>,
     <<"track_genres", ScalarString>>, <<"track_genres", BadString>>,
     <<"track_genres", TwiceQuotedListString(<<"pop">>)>>,
     <<"artist_ids", ListString(<<"a1">>)>>, <<"artist_ids", NaN>>,
     <<"artist_names", ListString(<<"Artist">>)>>, <<"artist_names", BadString>>}

AllNull ==
    [track_id |-> "t1", track_name |-> "name",
     track_duration_ms |-> <<>>, track_popularity |-> <<>>,
     track_genres |-> NaN,
     album_id |-> "album1", album_name |-> <<>>,
     album_release_date |-> NoDate, album_label |-> "Label",
     artist_ids |-> NaN, artist_names |-> NaN]

\* a row whose three list columns have three different shapes
MixedLists ==
    [WellFormed EXCEPT !.track_genres = NaN,
                       !.artist_ids = ListString(<<"a1">>),
                       !.artist_names = BadString]

RawRows ==
    {WellFormed, AllNull, MixedLists}
        \cup {[WellFormed EXCEPT ![fs[1]] = fs[2]] : fs \in FieldShapes}

RawFrames == SeqsUpTo(RawRows, MaxRows)

\* The column sets a dataframe of these rows can have. A dataframe made of
\* records has their columns; an empty one has them when it was made with
\* them (pd.DataFrame(columns=[...])) and has none when it was made of an
\* empty list of records (pd.DataFrame(all_tracks) of extract.py 93 for a
\* playlist without tracks).
ColumnShapes(d) == IF d = <<>> THEN BOOLEAN ELSE {TRUE}

\* transform_playlist_df is called on a raw dataframe. df['album_release_date']
\* of line 11 raises KeyError when the dataframe has no such column.
TransformCall ==
    /\ passes = <<>>
    /\ dateParsing = "none"
    /\ \E d \in RawFrames : \E parsing \in DateParsings :
       \E columns \in ColumnShapes(d) :
          /\ raw_df' = d
          /\ raw_columns' = columns
          /\ dateParsing' = parsing
          /\ IF columns
             THEN /\ passes' = <<transform_playlist_df(d, parsing)>>
                  /\ transformError' = "none"
             ELSE /\ passes' = <<>>
                  /\ transformError' = "KeyError"
    /\ UNCHANGED <<sinkVars, loadVars, extVars, pipeVars, dashVars, concVars,
                   viewVars>>

\* transform_playlist_df is called on what its last call returned
TransformAgain ==
    /\ passes # <<>>
    /\ Len(passes) < MaxPasses
    /\ passes' = Append(passes, transform_playlist_df(passes[Len(passes)], dateParsing))
    /\ UNCHANGED <<raw_df, raw_columns, transformError, dateParsing>>
    /\ UNCHANGED <<sinkVars, loadVars, extVars, pipeVars, dashVars, concVars,
                   viewVars>>

InitTransform ==
    /\ raw_df = <<>>
    /\ raw_columns = TRUE
    /\ transformError = "none"
    /\ passes = <<>>
    /\ dateParsing = "none"

-----------------------------------------------------------------------------
(* The DAG: airflow/dags/playlist_etl_dag.py *)

Runs == {"run1", "run2"}

\* extract_op >> transform_op >> load_op (line 95), by position
Tasks == <<"extract_playlist_data", "transform_playlist_data", "load_playlist_data">>
ExtractT == 1
TransformT == 2
LoadT == 3
TaskIds == {ExtractT, TransformT, LoadT}

\* default_args["retries"] (line 30)
retries == 1

\* line 57
DefaultPlaylist == "1ssFFcU1hlZnKgNnDshd0F"

\* what a trigger can pass as conf["playlist_id"]
ConfValues == {""} \cup PlaylistIds

\* The items the upstream holds for a playlist, page after page. The default
\* playlist holds one track twice.
UpstreamPages(p) ==
    IF p = "p1" THEN <<<<"t1", NullTrack>>, <<"t3">>>>
    ELSE IF p = "p2" THEN <<<<"t4">>>>
    ELSE <<<<"t3", "t3">>>>

RECURSIVE Flatten(_)
Flatten(pages) == IF pages = <<>> THEN <<>> ELSE Head(pages) \o Flatten(Tail(pages))

\* The records one track can give (lines 56-87): each artist lookup answers or
\* raises, and list(genre_set) comes in any order.
GenresOf(track, ok) ==
    UNION {ArtistGenres(track.artists[i].id) : i \in ok}
RecordOutcomes(track) ==
    {TrackRecord(track, g) :
        g \in UNION {ListsOf(GenresOf(track, ok)) :
                        ok \in SUBSET (1..Len(track.artists))}}

\* extract_playlist_tracks run to its return (lines 48-93) over the items of
\* all pages: every list of records it can return.
RECURSIVE ExtractOutcomes(_)
ExtractOutcomes(items) ==
    IF items = <<>> THEN {<<>>}
    ELSE LET track == Payload(Head(items))
             rest == ExtractOutcomes(Tail(items))
         IN IF NoTrack(track) THEN rest
            ELSE {<<rec>> \o q : rec \in RecordOutcomes(track[1]), q \in rest}

\* df.to_csv followed by pd.read_csv: a list comes back as the string of its
\* repr
CsvCell(x) == IF x.tag = "list" THEN ListString(x.val) ELSE x
\* a Timestamp comes back as its ISO text and NaT as NaN
CsvDate(x) ==
    IF x.tag = "ts" THEN DateStr(x.val)
    ELSE IF x.tag = "nat" THEN NoDate
    ELSE x
CsvRow(r) ==
    [c \in DOMAIN r |->
        IF c \in ListColumns THEN CsvCell(r[c])
        ELSE IF c = "album_release_date" THEN CsvDate(r[c])
        ELSE r[c]]
CsvRoundTrip(rows) == [i \in 1..Len(rows) |-> CsvRow(rows[i])]

\* lines 54-58
ResolvePlaylist(c) == IF c = "" THEN DefaultPlaylist ELSE c

\* df['playlist_id'] = playlist_id of line 77
Stamp(rows, p) ==
    [i \in 1..Len(rows) |->
        [c \in (DOMAIN rows[i]) \cup {"playlist_id"} |->
            IF c = "playlist_id" THEN p ELSE rows[i][c]]]

\* the retry rule with one attempt too many
ShouldRetryOnceMore(n) == n <= retries + 1

\* A task instance whose attempt n raised is retried while n <= retries
\* (default_args, lines 25-32).
ShouldRetry(n) == n <= retries

\* The attempt of task t of run r raised: the task is up for retry or failed;
\* when it failed, the tasks after it are upstream_failed (trigger rule
\* all_success of the operators of lines 80-93).
AfterRaise(r, t) ==
    /\ tries' = [tries EXCEPT ![r][t] = @ + 1]
    /\ raises' = [raises EXCEPT ![r][t] = @ + 1]
    /\ ti' = [ti EXCEPT ![r] =
                [u \in TaskIds |->
                    IF ShouldRetry(tries[r][t] + 1)
                    THEN (IF u = t THEN "up_for_retry" ELSE ti[r][u])
                    ELSE (IF u = t THEN "failed"
                          ELSE IF u > t THEN "upstream_failed"
                          ELSE ti[r][u])]]

AfterSuccess(r, t) ==
    /\ tries' = [tries EXCEPT ![r][t] = @ + 1]
    /\ ti' = [ti EXCEPT ![r][t] = "success"]
    /\ UNCHANGED raises

\* The scheduler runs task t of run r: the run is triggered, the task has not
\* ended, and the task before it succeeded.
Runnable(r, t) ==
    /\ conf[r] # <<>>
    /\ ti[r][t] \in {"none", "up_for_retry"}
    /\ IF t = ExtractT THEN TRUE ELSE ti[r][t - 1] = "success"

\* A DAG run is created with conf (a trigger of the dashboard, or the schedule)
TriggerRun(r, c) ==
    /\ conf[r] = <<>>
    /\ conf' = [conf EXCEPT ![r] = <<c>>]
    /\ UNCHANGED <<ti, tries, raises, rawFile, cleanFile, xcom, extracted,
                   transformed, persisted, loadOutcome>>
    /\ UNCHANGED <<sinkVars, loadVars, extVars, normVars, dashVars, concVars,
                   viewVars>>

\* extract_task (lines 53-64) runs to its end
ExtractTaskOk(r) ==
    /\ Runnable(r, ExtractT)
    /\ LET playlist_id == ResolvePlaylist(conf[r][1])
       IN /\ \E recs \in ExtractOutcomes(Flatten(UpstreamPages(playlist_id))) :
                /\ rawFile' = <<recs>>
                /\ extracted' = [extracted EXCEPT ![r] =
                                    [k \in 1..Len(recs) |-> recs[k].track_id]]
          /\ xcom' = [xcom EXCEPT ![r] = playlist_id]
    /\ AfterSuccess(r, ExtractT)
    /\ UNCHANGED <<conf, cleanFile, transformed, persisted, loadOutcome>>
    /\ UNCHANGED <<sinkVars, loadVars, extVars, normVars, dashVars, concVars,
                   viewVars>>

\* extract_task raises (spotify_api_setup, sp.playlist or a page fetch) before
\* it has written RAW_PATH
ExtractTaskRaise(r) ==
    /\ Runnable(r, ExtractT)
    /\ AfterRaise(r, ExtractT)
    /\ UNCHANGED <<conf, rawFile, cleanFile, xcom, extracted, transformed,
                   persisted, loadOutcome>>
    /\ UNCHANGED <<sinkVars, loadVars, extVars, normVars, dashVars, concVars,
                   viewVars>>

\* transform_task (lines 66-71) runs to its end on what RAW_PATH holds
TransformTaskOk(r) ==
    /\ Runnable(r, TransformT)
    /\ rawFile # <<>>
    /\ \E parsing \in DateParsings :
          cleanFile' = <<transform_playlist_df(CsvRoundTrip(rawFile[1]), parsing)>>
    /\ transformed' = [transformed EXCEPT ![r] = <<Len(rawFile[1])>>]
    /\ AfterSuccess(r, TransformT)
    /\ UNCHANGED <<conf, rawFile, xcom, extracted, persisted, loadOutcome>>
    /\ UNCHANGED <<sinkVars, loadVars, extVars, normVars, dashVars, concVars,
                   viewVars>>

\* transform_task raises (read_csv or to_csv) before it has written CLEAN_PATH
TransformTaskRaise(r) ==
    /\ Runnable(r, TransformT)
    /\ AfterRaise(r, TransformT)
    /\ UNCHANGED <<conf, rawFile, cleanFile, xcom, extracted, transformed,
                   persisted, loadOutcome>>
    /\ UNCHANGED <<sinkVars, loadVars, extVars, normVars, dashVars, concVars,
                   viewVars>>

\* the dataframe load_task hands to load_to_postgreSQL (lines 75-77), after
\* lines 52-54 of the loader
LoadFrame(r) == SerializeLists(Stamp(CsvRoundTrip(cleanFile[1]), xcom[r]))

\* load_task (lines 73-78): load_to_postgreSQL commits the batch, or skips an
\* empty one, and returns
LoadTaskCommit(r) ==
    /\ Runnable(r, LoadT)
    /\ cleanFile # <<>>
    /\ LET staged == LoadFrame(r)
       IN /\ FirstDuplicate(staged) = 0
          /\ table' = UpsertRows(table, staged, Len(staged))
          /\ persisted' = [persisted EXCEPT ![r] =
                              @ \cup {SelectRow(staged[i]) : i \in 1..Len(staged)}]
          /\ loadOutcome' = [loadOutcome EXCEPT ![r] =
                                IF staged = <<>> THEN "skipped" ELSE "committed"]
    /\ AfterSuccess(r, LoadT)
    /\ UNCHANGED <<conf, rawFile, cleanFile, xcom, extracted, transformed,
                   tempTables>>
    /\ UNCHANGED <<loadVars, extVars, normVars, dashVars, concVars, viewVars>>

\* load_task: to_sql raises inside load_to_postgreSQL; the except clause of
\* load.py 96-97 prints and load_to_postgreSQL returns
LoadTaskStagingFails(r) ==
    /\ Runnable(r, LoadT)
    /\ cleanFile # <<>>
    /\ LoadFrame(r) # <<>>
    /\ loadOutcome' = [loadOutcome EXCEPT ![r] = "staging_failed"]
    /\ AfterSuccess(r, LoadT)
    /\ UNCHANGED <<conf, rawFile, cleanFile, xcom, extracted, transformed,
                   persisted>>
    /\ UNCHANGED <<sinkVars, loadVars, extVars, normVars, dashVars, concVars,
                   viewVars>>

\* load_task: the upsert raises inside load_to_postgreSQL after the staging
\* table was committed; the except clause prints and load_to_postgreSQL returns
LoadTaskUpsertFails(r) ==
    /\ Runnable(r, LoadT)
    /\ cleanFile # <<>>
    /\ LET staged == LoadFrame(r)
       IN /\ staged # <<>>
          /\ \E name \in TempNames :
                tempTables' = CreateTable(tempTables, name, staged)
          /\ \E k \in FailurePoints(staged) :
                table' = Rollback(table, UpsertRows(table, staged, k))
    /\ loadOutcome' = [loadOutcome EXCEPT ![r] = "upsert_failed"]
    /\ AfterSuccess(r, LoadT)
    /\ UNCHANGED <<conf, rawFile, cleanFile, xcom, extracted, transformed,
                   persisted>>
    /\ UNCHANGED <<loadVars, extVars, normVars, dashVars, concVars, viewVars>>

\* load_task raises outside the try of load_to_postgreSQL (xcom_pull or
\* read_csv of lines 75-76)
LoadTaskRaise(r) ==
    /\ Runnable(r, LoadT)
    /\ loadOutcome' = [loadOutcome EXCEPT ![r] = "raised"]
    /\ AfterRaise(r, LoadT)
    /\ UNCHANGED <<conf, rawFile, cleanFile, xcom, extracted, transformed,
                   persisted>>
    /\ UNCHANGED <<sinkVars, loadVars, extVars, normVars, dashVars, concVars,
                   viewVars>>

InitPipe ==
    /\ conf = [r \in Runs |-> <<>>]
    /\ ti = [r \in Runs |-> [t \in TaskIds |-> "none"]]
    /\ tries = [r \in Runs |-> [t \in TaskIds |-> 0]]
    /\ raises = [r \in Runs |-> [t \in TaskIds |-> 0]]
    /\ rawFile = <<>>
    /\ cleanFile = <<>>
    /\ xcom = [r \in Runs |-> ""]
    /\ extracted = [r \in Runs |-> <<>>]
    /\ transformed = [r \in Runs |-> <<>>]
    /\ persisted = [r \in Runs |-> {}]
    /\ loadOutcome = [r \in Runs |-> "none"]

\* The state of the pipeline invocation r, read off its task instances.
StageOf(r) ==
    IF \E t \in TaskIds : ti[r][t] \in {"failed", "upstream_failed"} THEN "Failed"
    ELSE IF ti[r][LoadT] = "success" THEN "Done"
    ELSE IF ti[r][TransformT] = "success" THEN "Loading"
    ELSE IF ti[r][ExtractT] = "success" THEN "Transforming"
    ELSE "Extracting"

-----------------------------------------------------------------------------
(* The dashboard: playlist_analyzer/dashboard/models.py and views.py *)

\* the Playlist objects the tracks belong to
DashPlaylists == {"pl1", "pl2"}

\* a cell of the cleaned dataframe analyze_playlist hands to load_tracks_to_db
DashValue(c, v) ==
    IF c \in ListColumns
    THEN NativeList(IF v = 50 THEN <<"pop">> ELSE <<"pop", "rock">>)
    ELSE ColumnValue(c, v)

DashRow(t, v) ==
    [c \in {"track_id"} \cup MutableColumns |->
        IF c = "track_id" THEN t ELSE DashValue(c, v)]

DashRows == {DashRow("t1", 50), DashRow("t1", 90), DashRow("t2", 50)}
DashFrames == SeqsUpTo(DashRows, MaxDf)

\* The fields of the model Track (models.py 21-36). The model declares no
\* unique constraint: its only key is the id Django adds.
TrackFields == {"pk", "playlist", "track_id"} \cup MutableColumns

\* Track(playlist=..., track_id=..., ...) of views.py 48-61, saved under pk
NewTrack(pk, p, row) ==
    [c \in TrackFields |->
        IF c = "pk" THEN pk
        ELSE IF c = "playlist" THEN p
        ELSE row[c]]

\* views.py 35-44: the ten fields of the existing track are overwritten
UpdateTrack(e, row) ==
    [c \in TrackFields |-> IF c \in MutableColumns THEN row[c] ELSE e[c]]

\* Track.objects.filter(playlist=..., track_id=...) of views.py 28-31
FilterTracks(t, p, tid) == {e \in t : e["playlist"] = p /\ e["track_id"] = tid}

\* .first(): the row with the smallest id
First(q) == CHOOSE e \in q : \A o \in q : e["pk"] <= o["pk"]

\* The loop of views.py 26-61 over rows k..Len(d): an existing track is
\* updated and saved at once, a new one is only appended to tracks_to_create.
RECURSIVE LoadLoop(_, _, _, _, _)
LoadLoop(t, tracks_to_create, d, p, k) ==
    IF k > Len(d) THEN [tracks |-> t, tracks_to_create |-> tracks_to_create]
    ELSE LET existing == FilterTracks(t, p, d[k]["track_id"])
         IN IF existing # {}
            THEN LoadLoop((t \ {First(existing)})
                              \cup {UpdateTrack(First(existing), d[k])},
                          tracks_to_create, d, p, k + 1)
            ELSE LoadLoop(t, Append(tracks_to_create, d[k]), d, p, k + 1)

\* Track.objects.bulk_create(tracks_to_create, ignore_conflicts=True) of
\* views.py 64-65: the table has no unique constraint a row could conflict
\* with, so every row is inserted
BulkCreate(t, tracks_to_create, p, pk) ==
    t \cup {NewTrack(pk + i - 1, p, tracks_to_create[i]) :
                i \in 1..Len(tracks_to_create)}

\* Track.objects.create(playlist=p, track_id=..., ...): the row is inserted
CreateTrack(p, row) ==
    /\ nOps < MaxOps
    /\ nOps' = nOps + 1
    /\ preTracks' = tracks
    /\ tracks' = tracks \cup {NewTrack(nextPk, p, row)}
    /\ nextPk' = nextPk + 1
    /\ lastOp' = [op |-> "create", playlist |-> p, rows |-> <<row>>]
    /\ UNCHANGED <<sinkVars, loadVars, extVars, pipeVars, normVars, concVars,
                   viewVars>>

\* load_tracks_to_db(df, playlist_obj) (views.py 19-65)
LoadTracksToDb(d, p) ==
    /\ nOps < MaxOps
    /\ nOps' = nOps + 1
    /\ preTracks' = tracks
    /\ LET looped == LoadLoop(tracks, <<>>, d, p, 1)
       IN /\ tracks' = BulkCreate(looped.tracks, looped.tracks_to_create, p, nextPk)
          /\ nextPk' = nextPk + Len(looped.tracks_to_create)
    /\ lastOp' = [op |-> "load", playlist |-> p, rows |-> d]
    /\ UNCHANGED <<sinkVars, loadVars, extVars, pipeVars, normVars, concVars,
                   viewVars>>

InitDash ==
    /\ tracks = {}
    /\ nextPk = 1
    /\ lastOp = [op |-> "none", playlist |-> "none", rows |-> <<>>]
    /\ preTracks = {}
    /\ nOps = 0

-----------------------------------------------------------------------------
(* Two loads at the same time: scripts/load.py called by two processes *)

Loads == {"load1", "load2"}

\* The names os.urandom(8).hex() can give the two calls (line 56): every call
\* draws from the same 2^64 suffixes, and nothing keeps two draws apart.
StagingNames == {"temp_playlist_tracks_5f3a", "temp_playlist_tracks_c1d2"}

\* the batches of the two calls: one row each
ConcBatches == {<<r>> : r \in BatchRows}

\* lines 46-56 of a call with a batch that is not empty
ConcCall(l, d) ==
    /\ cPc[l] = "idle"
    /\ cDf' = [cDf EXCEPT ![l] = SerializeLists(d)]
    /\ \E name \in StagingNames : cName' = [cName EXCEPT ![l] = name]
    /\ cPc' = [cPc EXCEPT ![l] = "to_sql"]
    /\ cResult' = [cResult EXCEPT ![l] = "running"]
    /\ UNCHANGED <<stagedBy, sinkVars>>
    /\ UNCHANGED <<loadVars, extVars, pipeVars, normVars, dashVars, viewVars>>

\* lines 60-64: to_sql with if_exists='replace' creates the staging table, in
\* the place of whatever table has the name, and commits
ConcToSql(l) ==
    /\ cPc[l] = "to_sql"
    /\ tempTables' = CreateTable(tempTables, cName[l], cDf[l])
    /\ stagedBy' = CreateTable(stagedBy, cName[l], l)
    /\ cPc' = [cPc EXCEPT ![l] = "upsert"]
    /\ UNCHANGED <<table, cDf, cName, cResult>>
    /\ UNCHANGED <<loadVars, extVars, pipeVars, normVars, dashVars, viewVars>>

\* to_sql raises; the except clause of line 96 prints and the call returns
ConcToSqlFail(l) ==
    /\ cPc[l] = "to_sql"
    /\ cPc' = [cPc EXCEPT ![l] = "ended"]
    /\ cResult' = [cResult EXCEPT ![l] = "staging_failed"]
    /\ UNCHANGED <<cDf, cName, stagedBy, sinkVars>>
    /\ UNCHANGED <<loadVars, extVars, pipeVars, normVars, dashVars, viewVars>>

\* lines 94-95: the upsert reads the table that has the name of the call,
\* drops it and commits
ConcUpsertCommit(l) ==
    /\ cPc[l] = "upsert"
    /\ cName[l] \in DOMAIN tempTables
    /\ LET staged == tempTables[cName[l]]
       IN /\ FirstDuplicate(staged) = 0
          /\ table' = UpsertRows(table, staged, Len(staged))
    /\ tempTables' = DropTable(tempTables, cName[l])
    /\ stagedBy' = DropTable(stagedBy, cName[l])
    /\ cPc' = [cPc EXCEPT ![l] = "ended"]
    /\ cResult' = [cResult EXCEPT ![l] = "committed"]
    /\ UNCHANGED <<cDf, cName>>
    /\ UNCHANGED <<loadVars, extVars, pipeVars, normVars, dashVars, viewVars>>

\* lines 94-97: the statement raises (the sink fails, or no table has the
\* name any more); the transaction is rolled back and the call returns
ConcUpsertFail(l) ==
    /\ cPc[l] = "upsert"
    /\ cPc' = [cPc EXCEPT ![l] = "ended"]
    /\ cResult' = [cResult EXCEPT ![l] = "upsert_failed"]
    /\ UNCHANGED <<cDf, cName, stagedBy, sinkVars>>
    /\ UNCHANGED <<loadVars, extVars, pipeVars, normVars, dashVars, viewVars>>

InitConc ==
    /\ cPc = [l \in Loads |-> "idle"]
    /\ cDf = [l \in Loads |-> <<>>]
    /\ cName = [l \in Loads |-> "none"]
    /\ cResult = [l \in Loads |-> "none"]
    /\ stagedBy = <<>>

-----------------------------------------------------------------------------
(* The view analyze_playlist: playlist_analyzer/dashboard/views.py 112-169 *)

\* A request: its method, whether its form has the field 'url', and whether
\* its user is authenticated.
Requests ==
    [method : {"GET", "POST"}, url : BOOLEAN, authenticated : BOOLEAN]
NoRequest == [method |-> "none", url |-> FALSE, authenticated |-> FALSE]

\* The statements of the try block before the trigger (lines 123-156), by
\* what they do: spotify_api_setup and extract_playlist_tracks, the
\* transformation, the write of the Playlist row, the backup CSV, and
\* load_tracks_to_db.
TryStages == <<"extract", "transform", "playlist", "backup", "tracks">>

\* the statuses of the responses (lines 119, 162, 167, 169)
Redirect == 302
Forbidden == 403
InvalidMethod == 405
ServerError == 500

\* A request arrives (line 113). A request that is not a POST is answered at
\* line 169.
ViewRequest(r) ==
    /\ viewPc \in {"idle", "responded"}
    /\ nRequests < MaxRequests
    /\ nRequests' = nRequests + 1
    /\ request' = r
    /\ effects' = <<>>
    /\ raisedAt' = "none"
    /\ stage' = 1
    /\ IF r.method = "POST"
       THEN viewPc' = "post" /\ status' = 0
       ELSE viewPc' = "responded" /\ status' = InvalidMethod
    /\ UNCHANGED <<playlistSaved, dagRuns>>
    /\ UNCHANGED <<sinkVars, loadVars, extVars, pipeVars, normVars, dashVars,
                   concVars>>

\* lines 114-115: request.POST.get('url') is None for a form without the
\* field, and None.split raises AttributeError; the statement is before the
\* try, so the exception leaves the view and Django answers 500
ViewParseUrl ==
    /\ viewPc = "post"
    /\ IF request.url
       THEN viewPc' = "parsed" /\ UNCHANGED <<status, raisedAt>>
       ELSE viewPc' = "responded" /\ status' = ServerError /\ raisedAt' = "url"
    /\ UNCHANGED <<request, stage, effects, playlistSaved, dagRuns, nRequests>>
    /\ UNCHANGED <<sinkVars, loadVars, extVars, pipeVars, normVars, dashVars,
                   concVars>>

\* lines 118-119
ViewAuthCheck ==
    /\ viewPc = "parsed"
    /\ IF request.authenticated
       THEN viewPc' = "try" /\ UNCHANGED status
       ELSE viewPc' = "responded" /\ status' = Forbidden
    /\ UNCHANGED <<request, stage, effects, raisedAt, playlistSaved, dagRuns,
                   nRequests>>
    /\ UNCHANGED <<sinkVars, loadVars, extVars, pipeVars, normVars, dashVars,
                   concVars>>

\* a statement of lines 123-156 runs to its end
ViewStageOk ==
    /\ viewPc = "try"
    /\ stage <= Len(TryStages)
    /\ effects' = Append(effects, TryStages[stage])
    /\ playlistSaved' = (playlistSaved \/ TryStages[stage] = "playlist")
    /\ stage' = stage + 1
    /\ UNCHANGED <<request, viewPc, status, raisedAt, dagRuns, nRequests>>
    /\ UNCHANGED <<sinkVars, loadVars, extVars, pipeVars, normVars, dashVars,
                   concVars>>

\* a statement of lines 123-156 raises: the except clause of lines 164-167
\* answers 500. load_tracks_to_db can raise after it saved some tracks
\* (views.py 45).
ViewStageRaise ==
    /\ viewPc = "try"
    /\ stage <= Len(TryStages)
    /\ raisedAt' = TryStages[stage]
    /\ \/ UNCHANGED effects
       \/ TryStages[stage] = "tracks" /\ effects' = Append(effects, "some tracks")
    /\ status' = ServerError
    /\ viewPc' = "responded"
    /\ UNCHANGED <<request, stage, playlistSaved, dagRuns, nRequests>>
    /\ UNCHANGED <<sinkVars, loadVars, extVars, pipeVars, normVars, dashVars,
                   concVars>>

\* lines 160-162: trigger_airflow_dag posts the DAG run, or fails and
\* returns False (lines 97-106); the view redirects either way
ViewTrigger ==
    /\ viewPc = "try"
    /\ stage = Len(TryStages) + 1
    /\ \/ dagRuns' = dagRuns + 1 /\ effects' = Append(effects, "trigger")
       \/ UNCHANGED <<dagRuns, effects>>
    /\ status' = Redirect
    /\ viewPc' = "responded"
    /\ UNCHANGED <<request, stage, raisedAt, playlistSaved, nRequests>>
    /\ UNCHANGED <<sinkVars, loadVars, extVars, pipeVars, normVars, dashVars,
                   concVars>>

InitView ==
    /\ request = NoRequest
    /\ viewPc = "idle"
    /\ stage = 1
    /\ effects = <<>>
    /\ status = 0
    /\ raisedAt = "none"
    /\ playlistSaved = FALSE
    /\ dagRuns = 0
    /\ nRequests = 0

-----------------------------------------------------------------------------
(* Specifications *)

vars == <<sinkVars, loadVars, extVars, pipeVars, normVars, dashVars, concVars,
          viewVars>>

Init ==
    /\ InitSink
    /\ InitLoad
    /\ InitExtract
    /\ InitPipe
    /\ InitTransform
    /\ InitDash
    /\ InitConc
    /\ InitView

LoadNext ==
    \/ \E d \in Batches : LoadCall(d)
    \/ ToSql
    \/ ToSqlFail
    \/ UpsertCommit
    \/ UpsertFail

SpecLoad == Init /\ [][LoadNext]_vars

ExtractNext ==
    \/ GetPlaylist
    \/ GetPlaylistFail
    \/ GetItems
    \/ PageFail
    \/ SkipItem
    \/ StartTrack
    \/ ArtistOk
    \/ ArtistFail
    \/ AppendTrack
    \/ NextPage
    \/ ReturnTracks
    \/ ExtractTaskWrite

SpecExtract == Init /\ [][ExtractNext]_vars

\* extract_task is one synchronous thread: while it has a step to take, it
\* takes one
SpecExtractLive == Init /\ [][ExtractNext]_vars /\ WF_vars(ExtractNext)

PipeNext ==
    \/ \E r \in Runs : \E c \in ConfValues : TriggerRun(r, c)
    \/ \E r \in Runs : ExtractTaskOk(r)
    \/ \E r \in Runs : ExtractTaskRaise(r)
    \/ \E r \in Runs : TransformTaskOk(r)
    \/ \E r \in Runs : TransformTaskRaise(r)
    \/ \E r \in Runs : LoadTaskCommit(r)
    \/ \E r \in Runs : LoadTaskStagingFails(r)
    \/ \E r \in Runs : LoadTaskUpsertFails(r)
    \/ \E r \in Runs : LoadTaskRaise(r)

SpecPipe == Init /\ [][PipeNext]_vars

TransformNext ==
    \/ TransformCall
    \/ TransformAgain

SpecTransform == Init /\ [][TransformNext]_vars

DashNext ==
    \/ \E p \in DashPlaylists : \E row \in DashRows : CreateTrack(p, row)
    \/ \E p \in DashPlaylists : \E d \in DashFrames : LoadTracksToDb(d, p)

SpecDash == Init /\ [][DashNext]_vars

ConcNext ==
    \/ \E l \in Loads : \E d \in ConcBatches : ConcCall(l, d)
    \/ \E l \in Loads : ConcToSql(l)
    \/ \E l \in Loads : ConcToSqlFail(l)
    \/ \E l \in Loads : ConcUpsertCommit(l)
    \/ \E l \in Loads : ConcUpsertFail(l)

SpecConc == Init /\ [][ConcNext]_vars

ViewNext ==
    \/ \E r \in Requests : ViewRequest(r)
    \/ ViewParseUrl
    \/ ViewAuthCheck
    \/ ViewStageOk
    \/ ViewStageRaise
    \/ ViewTrigger

SpecView == Init /\ [][ViewNext]_vars

-----------------------------------------------------------------------------
(* Claims about the loader, checked under SpecLoad *)

Keys(t) == {KeyOf(e) : e \in t}
BatchKeys == {KeyOf(df[i]) : i \in 1..Len(df)}
LoadEnded == loadPc = "idle" /\ loadResult \notin {"none", "skipped"}

\* C1: after any sequence of loads the permanent table holds at most one row
\* for each (playlist_id, track_id); a committed load leaves exactly the keys
\* it found plus the keys of its batch, so a key already persisted gets no
\* second row.
C1_OneRowPerKey ==
    /\ \A a \in table : \A b \in table : KeyOf(a) = KeyOf(b) => a = b
    /\ loadResult = "committed" =>
          /\ Keys(table) = Keys(preTable) \cup BatchKeys
          /\ Cardinality(table) = Cardinality(Keys(preTable) \cup BatchKeys)

\* a committed load whose batch held a key that was already persisted
C1_Witness ==
    /\ loadResult = "committed"
    /\ \E i \in 1..Len(df) : KeyOf(df[i]) \in Keys(preTable)
    /\ Cardinality(table) = Cardinality(preTable)

\* C2: after a committed load every key of the batch has exactly one row, and
\* each of its columns holds the value of this load (the last one), whatever
\* the row held before; a committed load of the batch the committed load
\* before it had leaves the table as it was.
C2_LastWriteWins ==
    /\ loadResult = "committed" =>
          \A i \in 1..Len(df) :
              {e \in table : KeyOf(e) = KeyOf(df[i])} = {SelectRow(df[i])}
    /\ (loadResult = "committed" /\ reload) => table = preTable

\* a committed load that found its key persisted with other values in every
\* mutable column
C2_Witness ==
    /\ loadResult = "committed"
    /\ \E i \in 1..Len(df) : \E e \in preTable :
          /\ KeyOf(e) = KeyOf(df[i])
          /\ \A c \in MutableColumns : e[c] # SelectRow(df[i])[c]
          /\ SelectRow(df[i]) \in table
          /\ e \notin table

\* C3: a load that has not committed (it is running, or it failed while
\* staging or in the upsert) has changed nothing in the permanent table, and a
\* load that committed has all the rows of its batch in it.
C3_AllOrNothing ==
    /\ loadResult \in {"running", "staging_failed", "upsert_failed", "skipped"}
          => table = preTable
    /\ loadResult = "committed" =>
          \A i \in 1..Len(df) : SelectRow(df[i]) \in table

\* an upsert that failed part-way, after rows that changed the table
C3_Witness ==
    /\ loadResult = "upsert_failed"
    /\ failedAt >= 1
    /\ failedAt < Len(df)
    /\ UpsertRows(preTable, df, failedAt) # preTable
    /\ table = preTable

\* C4: when a load has ended, with the upsert succeeded or failed, the staging
\* table it created no longer exists.
C4_StagingDropped ==
    LoadEnded => temp_table_name \notin DOMAIN tempTables

\* C17: a call with an empty dataframe is a no-op: the step that makes the
\* call ends it, without error; it leaves the permanent table and the staging
\* tables as they were, draws no staging name and has nothing left to run
\* against the sink.
C17_EmptyIsNoOp ==
    [][(nLoads' = nLoads + 1 /\ df' = <<>>) =>
          /\ table' = table
          /\ tempTables' = tempTables
          /\ temp_table_name' = temp_table_name
          /\ loadPc' = "idle"
          /\ loadResult' = "skipped"]_vars

\* a call with an empty dataframe made when the permanent table held rows
C17_Witness ==
    /\ nLoads = MaxLoads
    /\ df = <<>>
    /\ loadPc = "idle"
    /\ loadResult = "skipped"
    /\ table # {}
    /\ table = preTable

\* C21: the staging of the batch and the upsert are one transaction: the
\* staging table of a load is in no committed state while the load has its
\* upsert still to run, and a load that failed has left neither rows in the
\* permanent table nor its staging table.
C21_OneTransaction ==
    /\ loadPc = "upsert" => temp_table_name \notin DOMAIN tempTables
    /\ loadResult \in {"staging_failed", "upsert_failed"} =>
          /\ table = preTable
          /\ temp_table_name \notin DOMAIN tempTables

\* C29: a load changes only the rows whose key is in its batch: every other
\* row of the permanent table stays as it was, a row of the same playlist
\* whose track is not in the batch included; no row is deleted and no key
\* ever leaves the table.
C29_OnlyBatchKeysChange ==
    /\ \A e \in preTable : KeyOf(e) \notin BatchKeys => e \in table
    /\ \A e \in table : KeyOf(e) \notin BatchKeys => e \in preTable
    /\ Keys(preTable) \subseteq Keys(table)
    /\ Cardinality(table) >= Cardinality(preTable)

\* a committed load that changed the table and whose batch left out a track
\* the permanent table holds for the playlist of the batch
C29_Witness ==
    /\ loadResult = "committed"
    /\ table # preTable
    /\ \E e \in preTable : \E i \in 1..Len(df) :
          /\ e["playlist_id"] = df[i]["playlist_id"]
          /\ KeyOf(e) \notin BatchKeys
          /\ e \in table

-----------------------------------------------------------------------------
(* Claims about the extractor, checked under SpecExtract *)

IsTrack(item) == item # NullTrack
TrackIdsOf(recs) == [k \in 1..Len(recs) |-> recs[k].track_id]

\* the items of arrived the loop of line 52 has dealt with
Handled ==
    IF extPc = "returned" THEN Len(arrived)
    ELSE IF pagesFetched = 0 THEN 0
    ELSE ArrivedPos - 1

\* C9: an item whose track payload is null gives no record, no artist lookup
\* and no error, and an item with a track gives exactly one record: the
\* records are, at every moment, the items with a track among the items dealt
\* with, one each; no lookup is for a null item; and the call never raises
\* while it is at an item.
C9_NullTracksSkipped ==
    /\ TrackIdsOf(all_tracks) = SelectSeq(SubSeq(arrived, 1, Handled), IsTrack)
    /\ \A k \in 1..Len(artistLog) : arrived[artistLog[k][1]] # NullTrack
    /\ extPc = "raised" => (pagesFetched = 0 \/ itemIdx > Len(results.items))

\* an extraction that returned after a null item and, after it, an item with
\* a track
C9_Witness ==
    /\ extPc = "returned"
    /\ \E i \in 1..Len(arrived) : \E j \in 1..Len(arrived) :
          i < j /\ arrived[i] = NullTrack /\ arrived[j] # NullTrack
    /\ Len(all_tracks) = Cardinality({j \in 1..Len(arrived) : arrived[j] # NullTrack})

\* C10: when the call returns, the records are those of all the pages: as many
\* as there are items with a track, in arrival order, and sp.next was called
\* once for every page but the first.
C10_AllPagesInOrder ==
    extPc = "returned" =>
        /\ Len(all_tracks) = Cardinality({j \in 1..Len(arrived) : IsTrack(arrived[j])})
        /\ TrackIdsOf(all_tracks) = SelectSeq(arrived, IsTrack)
        /\ nextCalls = pagesFetched - 1

\* an extraction that returned two pages, with different tracks on the first
\* and on the second
C10_Witness ==
    /\ extPc = "returned"
    /\ pagesFetched = 2
    /\ nextCalls = 1
    /\ Len(results.items) >= 1
    /\ Len(arrived) > Len(results.items)
    /\ Len(all_tracks) >= 2
    /\ all_tracks[1].track_id # all_tracks[Len(all_tracks)].track_id
    /\ arrived[1] # NullTrack
    /\ arrived[Len(arrived)] # NullTrack

\* the positions in arrived of the items with a track, in order
IsTrackAt(p) == IsTrack(arrived[p])
TrackPositions == SelectSeq([p \in 1..Len(arrived) |-> p], IsTrackAt)

\* the lookups made for the item at position p: the artist ids asked, in
\* order, and the genres of those that answered
LookupsAt(p) ==
    LET at(e) == e[1] = p
        log == SelectSeq(artistLog, at)
    IN [i \in 1..Len(log) |-> log[i][2]]
AnsweredGenresAt(p) ==
    UNION {ArtistGenres(artistLog[k][2]) :
              k \in {j \in 1..Len(artistLog) : artistLog[j][1] = p /\ artistLog[j][3]}}
GenreSetOf(rec) == {rec.track_genres.val[i] : i \in 1..Len(rec.track_genres.val)}

\* C11: a failed artist lookup does not abort the extraction. Every track the
\* loop has dealt with has its record, with every one of its artists looked
\* up in order, whether lookups before it failed or not, and with exactly the
\* genres of the lookups that answered (a failed one adds none); and the call
\* never raises while it is at an item.
C11_LookupFailureAbsorbed ==
    /\ \A k \in 1..Len(all_tracks) :
          /\ all_tracks[k].track_id = arrived[TrackPositions[k]]
          /\ LookupsAt(TrackPositions[k]) = TrackArtists(arrived[TrackPositions[k]])
          /\ GenreSetOf(all_tracks[k]) = AnsweredGenresAt(TrackPositions[k])
    /\ extPc = "returned" => Len(all_tracks) = Len(TrackPositions)
    /\ extPc = "raised" => (pagesFetched = 0 \/ itemIdx > Len(results.items))

\* an extraction that returned after the lookup of the first artist of a
\* two-artist track failed: the second artist was looked up, the record has
\* the second artist's genres only, and a later track has its record too
C11_Witness ==
    /\ extPc = "returned"
    /\ \E k \in 1..Len(artistLog) :
          /\ ~artistLog[k][3]
          /\ k < Len(artistLog)
          /\ artistLog[k + 1][1] = artistLog[k][1]
          /\ artistLog[k + 1][3]
          /\ \E j \in (k + 2)..Len(artistLog) : artistLog[j][1] > artistLog[k][1]
    /\ Len(all_tracks) = Len(TrackPositions)
    /\ Len(all_tracks) >= 2

\* C24: between any two consecutive artist lookups of an extraction the
\* function has slept at least 100 ms, whether the earlier of the two
\* answered or raised (the lookups are calls of one thread, one after the
\* other).
C24_MinDelay ==
    \A k \in 2..Len(artistLog) : artistLog[k][4] >= 100

\* the artists of the track at position p of arrived
ArtistsAt(p) ==
    {TrackArtists(arrived[p])[i] : i \in 1..Len(TrackArtists(arrived[p]))}

\* C25: the track_genres of every record holds each genre once, and holds
\* exactly the genres the lookups that answered returned for the artists of
\* the track of the record: all the genres of its artists when every lookup
\* answered, and no genre that only artists of another track have.
C25_GenresAreUnion ==
    \A k \in 1..Len(all_tracks) :
        LET g == all_tracks[k].track_genres.val
            p == TrackPositions[k]
            answered == {artistLog[j][2] :
                            j \in {i \in 1..Len(artistLog) :
                                      artistLog[i][1] = p /\ artistLog[i][3]}}
        IN /\ \A i \in 1..Len(g) : \A j \in 1..Len(g) : g[i] = g[j] => i = j
           /\ {g[i] : i \in 1..Len(g)} = UNION {ArtistGenres(a) : a \in answered}
           /\ answered \subseteq ArtistsAt(p)
           /\ answered = ArtistsAt(p) =>
                 Len(g) = Cardinality(UNION {ArtistGenres(a) : a \in ArtistsAt(p)})

\* an extraction that returned the record of a track whose two artists share
\* a genre, both looked up, and after it the record of a track with one of
\* the two artists
C25_Witness ==
    /\ extPc = "returned"
    /\ \A k \in 1..Len(artistLog) : artistLog[k][3]
    /\ \E k \in 1..(Len(all_tracks) - 1) :
          /\ all_tracks[k].track_id = "t2"
          /\ Len(all_tracks[k].track_genres.val) = 2
          /\ GenreSetOf(all_tracks[k]) = {"pop", "rock"}
          /\ all_tracks[k + 1].track_id = "t1"
          /\ all_tracks[k + 1].track_genres.val = <<"pop">>

-----------------------------------------------------------------------------
(* Claims about the extractor, checked under SpecExtractLive *)

\* C23: the call ends, by its return or by an exception; up to there
\* sp.playlist is called once, before the first page; the pages are asked for
\* in the order 1, 2, 3, ..., each once; a page is asked for only when the
\* page in hand has a next cursor, and the call returns at a page that has
\* none.
C23_Terminates ==
    /\ [](/\ metaCalls <= 1
          /\ fetchLog # <<>> => metaCalls = 1
          /\ fetchLog = [k \in 1..Len(fetchLog) |-> k]
          /\ extPc = "returned" =>
                 /\ ~results.next
                 /\ Len(fetchLog) = pagesFetched)
    /\ [][(fetchLog # <<>> /\ Len(fetchLog') > Len(fetchLog)) => results.next]_vars
    /\ <>(extPc \in {"returned", "raised"})

\* an extraction that returned after two pages
C23_Witness ==
    /\ extPc = "returned"
    /\ metaCalls = 1
    /\ fetchLog = <<1, 2>>
    /\ pagesFetched = 2
    /\ ~results.next

-----------------------------------------------------------------------------
(* Claims about the normalizer, checked under SpecTransform *)

\* C12: the normalizer is idempotent on its own outputs: with x what a call
\* returned, the call on x and the call on what that call returned give the
\* same dataframe, field by field.
C12_Idempotent ==
    Len(passes) >= 3 => passes[3] = passes[2]

\* C13: in every record that leaves the normalizer, track_genres, artist_ids
\* and artist_names are lists, whatever the input held.
C13_ListsAlways ==
    \A k \in 1..Len(passes) : \A i \in 1..Len(passes[k]) : \A c \in ListColumns :
        passes[k][i][c].tag = "list"

\* C14: the coercion of the three list columns returns a native list as it
\* is, the list itself for the string a list is written as (the string the
\* CSV round trip makes of the native list), and the empty list for a null
\* value and for a string that does not parse.
C14_ListCoercion ==
    passes # <<>> =>
        \A i \in 1..Len(raw_df) : \A c \in ListColumns :
            LET x == raw_df[i][c]
                y == passes[1][i][c]
            IN /\ x.tag = "list" => y = x
               /\ (x.tag = "str" /\ x.lit = "list") =>
                     /\ y = NativeList(x.val)
                     /\ x = CsvCell(y)
               /\ x.tag = "nan" => y = NativeList(<<>>)
               /\ (x.tag = "str" /\ x.lit = "bad") => y = NativeList(<<>>)

\* a dataframe normalized with, in its list columns, a native list, the
\* string of a non-empty list, a null value and a string that does not parse
C14_Witness ==
    /\ passes # <<>>
    /\ \E i \in 1..Len(raw_df) : \E j \in 1..Len(raw_df) :
          /\ raw_df[i].track_genres = ListString(<<"pop", "rock">>)
          /\ passes[1][i].track_genres = NativeList(<<"pop", "rock">>)
          /\ raw_df[i].artist_ids = NativeList(<<"a1">>)
          /\ passes[1][i].artist_ids = NativeList(<<"a1">>)
          /\ raw_df[j].artist_names = BadString
          /\ passes[1][j].artist_names = NativeList(<<>>)
          /\ raw_df[j].track_genres = NaN
          /\ passes[1][j].track_genres = NativeList(<<>>)

\* a text pd.to_datetime can read as a date
IsDateText(x) == x.tag = "str" /\ Len(x.val) \in 1..3

\* C15: in every record, on its own, a missing popularity becomes 0, a missing
\* album_name becomes "Unknown", a missing or unparseable date gives a null
\* date and a null release_year, and every present value stays: a date that
\* parses gives its Timestamp and its year.
C15_NullPolicy ==
    passes # <<>> =>
        \A i \in 1..Len(raw_df) :
            LET r == raw_df[i]
                o == passes[1][i]
            IN /\ o.track_popularity =
                     (IF r.track_popularity = <<>> THEN <<0>> ELSE r.track_popularity)
               /\ o.album_name =
                     (IF r.album_name = <<>> THEN <<"Unknown">> ELSE r.album_name)
               /\ IF IsDateText(r.album_release_date)
                  THEN /\ o.album_release_date =
                              Timestamp(PadDate(r.album_release_date.val))
                       /\ o.release_year = <<r.album_release_date.val[1]>>
                  ELSE /\ o.album_release_date = NaT
                       /\ o.release_year = <<>>

\* C16: in every record that leaves the normalizer the popularity, the
\* duration in milliseconds and the duration in seconds are not negative.
C16_NonNegative ==
    \A k \in 1..Len(passes) : \A i \in 1..Len(passes[k]) :
        LET o == passes[k][i]
        IN /\ o.track_popularity[1] >= 0
           /\ o.track_duration_ms # <<>> => o.track_duration_ms[1] >= 0
           /\ o.track_duration_sec # <<>> => o.track_duration_sec[1].num >= 0

\* the columns transform_playlist_df neither assigns nor is asked to change
KeptColumns ==
    {"track_id", "track_name", "track_duration_ms", "album_id", "album_label"}

\* C26: a call of transform_playlist_df leaves by no exception, an empty
\* dataframe included; what it returns has the records of its input, as many
\* and in the same order, each with its track_id (a null one too) and its
\* track_duration_ms as they were and with the two derived columns.
C26_FramePreserved ==
    /\ transformError = "none"
    /\ dateParsing # "none" =>
          /\ Len(passes) >= 1
          /\ Len(passes[1]) = Len(raw_df)
          /\ \A i \in 1..Len(raw_df) :
                /\ \A c \in KeptColumns : passes[1][i][c] = raw_df[i][c]
                /\ {"release_year", "track_duration_sec"} \subseteq DOMAIN passes[1][i]

-----------------------------------------------------------------------------
(* Claims about the pipeline, checked under SpecPipe *)

SinkFailures == {"staging_failed", "upsert_failed"}

\* C5: a sink write failure in the load stage is fatal: the load task of an
\* invocation whose load_to_postgreSQL met a sink failure is not marked
\* success, and the invocation is not Done.
C5_SinkFailureIsFatal ==
    \A r \in Runs :
        loadOutcome[r] \in SinkFailures =>
            /\ ti[r][LoadT] # "success"
            /\ StageOf(r) # "Done"

\* the last attempt of stage t of invocation r ended in a failure
StageFailed(r, t) ==
    \/ ti[r][t] = "failed"
    \/ t = LoadT /\ loadOutcome[r] \in SinkFailures

\* C6: the stages of an invocation run in the order Extracting, Transforming,
\* Loading, Done, each started only after the one before it succeeded, and a
\* stage that failed leaves the invocation Failed with no later stage started.
C6_StageOrder ==
    \A r \in Runs :
        /\ tries[r][TransformT] > 0 => ti[r][ExtractT] = "success"
        /\ tries[r][LoadT] > 0 => ti[r][TransformT] = "success"
        /\ StageOf(r) = "Done" => \A t \in TaskIds : ti[r][t] = "success"
        /\ \A t \in TaskIds :
              StageFailed(r, t) =>
                  /\ StageOf(r) = "Failed"
                  /\ \A u \in TaskIds : u > t => tries[r][u] = 0

C8_OwnInputOnly ==
    (\A r \in Runs : \A q \in Runs :
        (r # q /\ conf[r] # <<>> /\ conf[q] # <<>>) =>
            ResolvePlaylist(conf[r][1]) # ResolvePlaylist(conf[q][1]))
    => \A r \in Runs : \A row \in persisted[r] :
          /\ row["playlist_id"] = ResolvePlaylist(conf[r][1])
          /\ \E k \in 1..Len(extracted[r]) : row["track_id"] = extracted[r][k]

\* the items of the playlist of invocation r whose track payload is not null
UpstreamTracks(r) ==
    SelectSeq(Flatten(UpstreamPages(ResolvePlaylist(conf[r][1]))), IsTrack)

\* no stage of invocation r failed: every task succeeded at its first
\* attempt and the loader met no sink failure
NoStageFailed(r) ==
    /\ \A t \in TaskIds : ti[r][t] = "success" /\ raises[r][t] = 0
    /\ loadOutcome[r] \notin SinkFailures

Distinct(q) == \A i \in 1..Len(q) : \A j \in 1..Len(q) : q[i] = q[j] => i = j

\* C18: for an invocation in which no stage failed and whose extracted track
\* ids are distinct, the records Extract reported, the rows Transform wrote
\* and the rows persisted for it are as many as the upstream items with a
\* track, and every persisted row carries the resolved playlist_id and is in
\* the permanent table under it.
C18_CountsAgree ==
    \A r \in Runs :
        (NoStageFailed(r) /\ Distinct(extracted[r])) =>
            LET n == Len(UpstreamTracks(r))
                p == ResolvePlaylist(conf[r][1])
            IN /\ Len(extracted[r]) = n
               /\ transformed[r] = <<n>>
               /\ Cardinality(persisted[r]) = n
               /\ \A row \in persisted[r] : row["playlist_id"] = p
               /\ {row["track_id"] : row \in persisted[r]} =
                     {UpstreamTracks(r)[k] : k \in 1..n}

\* invocation r is the only one triggered, its playlist holds an item twice
\* and its load task has run with the sink reachable
RepeatedItemLoaded(r) ==
    /\ conf[r] # <<>>
    /\ \A q \in Runs \ {r} : conf[q] = <<>>
    /\ ~Distinct(UpstreamTracks(r))
    /\ ti[r][LoadT] = "success"
    /\ loadOutcome[r] # "staging_failed"

\* C27: when the upstream repeats an item, the extraction has a record for
\* each occurrence, the load commits, and the permanent table holds one row
\* for the (playlist_id, track_id), a row of this load.
C27_RepeatedItemLastWins ==
    \A r \in Runs :
        RepeatedItemLoaded(r) =>
            /\ extracted[r] = UpstreamTracks(r)
            /\ loadOutcome[r] = "committed"
            /\ \A k \in 1..Len(extracted[r]) :
                  /\ Cardinality({e \in table :
                        KeyOf(e) = <<ResolvePlaylist(conf[r][1]), extracted[r][k]>>}) = 1
                  /\ \E e \in persisted[r] : e \in table /\ e["track_id"] = extracted[r][k]

-----------------------------------------------------------------------------
(* Claims about the dashboard, checked under SpecDash *)

PairOf(e) == <<e["playlist"], e["track_id"]>>
OneRowPerPair(t) == \A a \in t : \A b \in t : PairOf(a) = PairOf(b) => a = b

\* C19: Track.objects.create for a playlist and track_id a Track already has
\* is rejected, the table being left as it was, so that a create never gives
\* the table a second row for a (playlist, track_id).
C19_CreateRejectsDuplicate ==
    lastOp.op = "create" =>
        /\ FilterTracks(preTracks, lastOp.playlist, lastOp.rows[1]["track_id"]) # {}
              => tracks = preTracks
        /\ OneRowPerPair(preTracks) => OneRowPerPair(tracks)

\* C20: a load_tracks_to_db call on a table with at most one row for each
\* (playlist, track_id) leaves it so, whatever its dataframe; a call leaves, for every track of
\* its dataframe that existed, the row it had, with the incoming values, and
\* adds one row for every other track of the dataframe, no more.
C20_LoadKeepsOneRowPerPair ==
    lastOp.op = "load" =>
       /\ OneRowPerPair(preTracks) => OneRowPerPair(tracks)
       /\ LET ids == {lastOp.rows[i]["track_id"] : i \in 1..Len(lastOp.rows)}
              known == {tid \in ids : FilterTracks(preTracks, lastOp.playlist, tid) # {}}
          IN /\ Cardinality(tracks) = Cardinality(preTracks) + Cardinality(ids \ known)
             /\ \A tid \in known :
                   \A e \in FilterTracks(tracks, lastOp.playlist, tid) :
                       \E o \in preTracks : \E i \in 1..Len(lastOp.rows) :
                           /\ o["pk"] = e["pk"]
                           /\ lastOp.rows[i]["track_id"] = tid
                           /\ e = UpdateTrack(o, lastOp.rows[i])

-----------------------------------------------------------------------------
(* Claims about concurrent loads, checked under SpecConc *)

Staging(l) == cPc[l] \in {"to_sql", "upsert"}

-----------------------------------------------------------------------------
(* Claims about the view, checked under SpecView *)

Position(q, x) ==
    IF \E i \in 1..Len(q) : q[i] = x
    THEN CHOOSE i \in 1..Len(q) : q[i] = x
    ELSE 0

\* C30: the DAG run of a request is triggered after its Playlist write and
\* its track load, both ended; a request one of whose statements raised is
\* answered 500 with no DAG run triggered; and a POST of a user who is not
\* authenticated is answered 403 with nothing extracted, written or
\* triggered.
C30_TriggerLast ==
    /\ Position(effects, "trigger") > 0 =>
          /\ Position(effects, "playlist") > 0
          /\ Position(effects, "tracks") > Position(effects, "playlist")
          /\ Position(effects, "trigger") > Position(effects, "tracks")
    /\ raisedAt # "none" =>
          /\ status = 500
          /\ Position(effects, "trigger") = 0
    /\ (request.method = "POST" /\ ~request.authenticated
            /\ viewPc = "responded") =>
          /\ status = 403
          /\ effects = <<>>

=============================================================================
